---- MODULE Spec2Model ----
(***************************************************************************)
(* Model of memem47/xray-sim-gui.                                          *)
(*                                                                         *)
(*   src/src/simulator/physics.py : simulate(), a Beer-Lambert projection  *)
(*                                  of a solid sphere on a pixel grid      *)
(*   src/src/app/gui.py           : XRayApp, two sliders, a debounced      *)
(*                                  render, Reset and Save PNG             *)
(*                                                                         *)
(* Arithmetic.  The program computes in binary floating point.  Here a     *)
(* real number x is held as the integer floor(x * SCALE) (fixed point,     *)
(* rounded down), tube current and tube voltage are whole mA / kVp (the    *)
(* sliders have resolution 1), and the pixel geometry is held as exact     *)
(* fractions, so that "inside the sphere" is decided exactly.  NaN and     *)
(* the infinities are not represented.  Every intermediate value stays     *)
(* below 2^31.                                                             *)
(***************************************************************************)
EXTENDS Integers, Sequences, FiniteSets, TLC

\* Resolution of the fixed-point numbers: 1.0 is held as SCALE.
SCALE == 1000

\* Largest height and width of the arrays that are built whole.
MaxDim == 5

\* Number of self.after() calls followed (Tk numbers its timers after#0, after#1, ...).
MaxAfter == 3

VARIABLES
    \* gui.py, XRayApp
    var_mA,      \* self.var_mA
    var_kVp,     \* self.var_kVp
    after_id,    \* self._after_id: {} for None, {id} for the id self.after() returned
    timers,      \* Tk's timer queue: the ids scheduled, not yet fired or cancelled
    next_after,  \* the id the next self.after() call returns
    last_pil,    \* self._last_pil: NoImage for None, or an image
    preview,     \* the image self.preview shows (self._last_tk)
    status,      \* the text of self.status
    saved,       \* the file save_png wrote: NoImage while there is none
    warned,      \* whether save_png showed "Nothing to save"
    op,          \* the handler that ran last
    \* physics.py, one call of simulate on a whole array
    call,        \* its arguments
    sim,         \* what it computed
    \* physics.py, one element of simulate on an IMG_SIZE image
    probe,       \* the arguments and the element's indices
    pixel        \* what simulate computed for it

guiVars == <<var_mA, var_kVp, after_id, timers, next_after, last_pil, preview,
             status, saved, warned, op>>
simVars == <<call, sim>>
imgVars == <<probe, pixel>>
vars == <<guiVars, simVars, imgVars>>

\* Number of terms of the series that stands for np.exp.
ExpTerms == 12

-----------------------------------------------------------------------------
(* physics.py: tunable constants *)

FOV_X_CM == 20
SPHERE_RADIUS_CM == 6
SPHERE_CENTER_CM == <<0, 0>>

MU_REF_CM1 == (50 * SCALE) \div 100
KVP_REF == 60
\* MU_POWER = 2.2 = MU_POWER_NUM / MU_POWER_DEN
MU_POWER_NUM == 11
MU_POWER_DEN == 5
MU_MIN == (5 * SCALE) \div 100

I0_MIN == (60 * SCALE) \div 100
I0_MAX == (140 * SCALE) \div 100

\* The literals of simulate(): max(10.0, kVp) and _normalize(mA, 10.0, 500.0).
KVP_FLOOR == 10
MA_LO == 10
MA_HI == 500

-----------------------------------------------------------------------------
(* fixed-point helpers *)

Max(a, b) == IF a >= b THEN a ELSE b
Min(a, b) == IF a <= b THEN a ELSE b

\* np.clip(v, lo, hi)
Clip(v, lo, hi) == Max(lo, Min(v, hi))

\* a * b of two fixed-point numbers
FMul(a, b) == (a * b) \div SCALE

\* x ** n for a fixed-point x >= 0 and a natural n
RECURSIVE FPowInt(_, _)
FPowInt(x, n) == IF n = 0 THEN SCALE ELSE FMul(FPowInt(x, n - 1), x)

\* The largest m in lo..hi with m*m <= q (lo*lo <= q is given).
RECURSIVE SqrtSearch(_, _, _)
SqrtSearch(q, lo, hi) ==
    IF lo >= hi THEN lo
    ELSE LET mid == (lo + hi + 1) \div 2
         IN  IF mid * mid <= q THEN SqrtSearch(q, mid, hi)
                               ELSE SqrtSearch(q, lo, mid - 1)

\* floor(sqrt(q)) for 0 <= q < 2^30
ISqrt(q) == SqrtSearch(q, 0, Min(q, 32767))

\* The largest r in lo..hi with r ** n <= x, for fixed-point x and r.
RECURSIVE RootSearch(_, _, _, _)
RootSearch(x, n, lo, hi) ==
    IF lo >= hi THEN lo
    ELSE LET mid == (lo + hi + 1) \div 2
         IN  IF FPowInt(mid, n) <= x THEN RootSearch(x, n, mid, hi)
                                     ELSE RootSearch(x, n, lo, mid - 1)

\* x ** (1/n) for a fixed-point 0 <= x <= 2^n (the root is at most 2.0)
FRoot(x, n) == RootSearch(x, n, 0, 2 * SCALE)

\* x ** (num/den) = x ** (num div den) * (x ** (1/den)) ** (num mod den)
FPowRat(x, num, den) ==
    FMul(FPowInt(x, num \div den), FPowInt(FRoot(x, den), num % den))

\* The series 1 - f + f^2/2! - f^3/3! + ... for a fixed-point 0 <= f <= 1.0:
\* term is the k-th term's size, sum the terms before it.
RECURSIVE ExpSeries(_, _, _, _)
ExpSeries(f, k, term, sum) ==
    IF k > ExpTerms \/ term = 0 THEN sum
    ELSE ExpSeries(f, k + 1, (term * f) \div ((k + 1) * SCALE),
                   IF k % 2 = 0 THEN sum + term ELSE sum - term)

\* exp(-f) for 0 <= f <= 1.0
ExpNegFrac(f) == Max(0, ExpSeries(f, 0, SCALE, 0))

\* acc * exp(-1) ** q
RECURSIVE ExpNegWhole(_, _)
ExpNegWhole(acc, q) ==
    IF q = 0 \/ acc = 0 THEN acc
    ELSE ExpNegWhole(FMul(acc, ExpNegFrac(SCALE)), q - 1)

\* np.exp(-z) for a fixed-point z >= 0
ExpNeg(z) == ExpNegWhole(ExpNegFrac(z % SCALE), z \div SCALE)

-----------------------------------------------------------------------------
(* physics.py: _normalize *)

\* Normalize without the clip: the linear map extrapolated outside [lo, hi].
NormalizeUnclamped(v, lo, hi) ==
    IF hi <= lo THEN 0 ELSE ((v - lo) * SCALE) \div (hi - lo)

\* _normalize(v, lo, hi): clamp-linear normalisation of v into [0, 1].
Normalize(v, lo, hi) ==
    IF hi <= lo THEN 0
    ELSE Clip(((v - lo) * SCALE) \div (hi - lo), 0, SCALE)

-----------------------------------------------------------------------------
(* physics.py: _sphere_thickness_map                                       *)
(*                                                                         *)
(* px_cm = fov_x_cm / W, and the coordinates of pixel (i, j) are           *)
(*   x = (j - (W-1)/2) * px_cm = XNum / (2W),                              *)
(*   y = (i - (H-1)/2) * px_cm = YNum / (2W),                              *)
(* both exact fractions over the common denominator 2W.                    *)

\* An assertion that lets a height of zero through.
ShapeOkWeak(H, W) == H >= 0 /\ W > 0

\* assert H > 0 and W > 0
ShapeOk(H, W) == H > 0 /\ W > 0

\* A column grid centred on column W/2 instead of on (W-1)/2.
DxNumOffCentre(j, W, fov, center) == (2 * j - W) * fov - 2 * W * center[1]

\* Numerator over 2W of x - cx, the column's offset from the sphere centre.
DxNum(j, W, fov, center) == (2 * j - (W - 1)) * fov - 2 * W * center[1]

\* Numerator over 2W of y - cy, the row's offset from the sphere centre.
DyNum(i, H, W, fov, center) == (2 * i - (H - 1)) * fov - 2 * W * center[2]

\* Numerator over (2W)^2 of r^2 = dx^2 + dy^2.
RSqNum(i, j, H, W, fov, center) ==
    DxNum(j, W, fov, center) * DxNum(j, W, fov, center)
      + DyNum(i, H, W, fov, center) * DyNum(i, H, W, fov, center)

\* Numerator over (2W)^2 of R^2.
RadiusSqNum(W, radius) == (2 * W * radius) * (2 * W * radius)

\* inside = r <= R
Inside(i, j, H, W, fov, radius, center) ==
    RSqNum(i, j, H, W, fov, center) <= RadiusSqNum(W, radius)

\* floor(d * SCALE^2 / w2) for 0 <= d and w2 * SCALE < 2^31, without a product
\* above 2^31.
ScaleSq(d, w2) ==
    LET dq == d \div w2
        dr == d % w2
        e  == (dr * SCALE) \div w2
        g  == (dr * SCALE) % w2
    IN  dq * SCALE * SCALE + e * SCALE + (g * SCALE) \div w2

\* A thickness that leaves out the "inside" mask and the maximum(0.0, .):
\* the magnitude of 2 * sqrt(|R^2 - r^2|) at every pixel.
ThicknessUnmasked(i, j, H, W, fov, radius, center) ==
    LET d == RadiusSqNum(W, radius) - RSqNum(i, j, H, W, fov, center)
    IN  ISqrt(ScaleSq(IF d < 0 THEN -d ELSE d, W * W))

\* t[inside] = 2 * sqrt(maximum(0, R^2 - r^2)), and 0 elsewhere: the element
\* (i, j) of the thickness map [cm].  2 * sqrt(D / (2W)^2) = sqrt(D / W^2).
Thickness(i, j, H, W, fov, radius, center) ==
    IF Inside(i, j, H, W, fov, radius, center)
    THEN ISqrt(ScaleSq(Max(0, RadiusSqNum(W, radius)
                               - RSqNum(i, j, H, W, fov, center)), W * W))
    ELSE 0

-----------------------------------------------------------------------------
(* physics.py: simulate *)

\* A voltage guard with the wrong floor.
KVpEffLowFloor(kVp) == Max(KVP_FLOOR \div 2, kVp)

\* kVp_eff = max(10.0, kVp)
KVpEff(kVp) == Max(KVP_FLOOR, kVp)

\* mu = max(MU_MIN, MU_REF_CM1 * (KVP_REF / kVp_eff) ** MU_POWER)
Mu(kVp) ==
    Max(MU_MIN,
        FMul(MU_REF_CM1,
             FPowRat((KVP_REF * SCALE) \div KVpEff(kVp), MU_POWER_NUM, MU_POWER_DEN)))

\* An incident intensity that falls as the current rises.
IncidentFalling(mA) == I0_MAX - FMul(I0_MAX - I0_MIN, Normalize(mA, MA_LO, MA_HI))

\* I0 = I0_MIN + (I0_MAX - I0_MIN) * _normalize(mA, 10.0, 500.0)
Incident(mA) == I0_MIN + FMul(I0_MAX - I0_MIN, Normalize(mA, MA_LO, MA_HI))

\* I = I0 * exp(-mu * t), one element, before the display clamp
Attenuate(I0, mu, t) == FMul(I0, ExpNeg(FMul(mu, t)))

\* A display clamp that is left out.
DisplayClampMissing(v) == v

\* np.clip(I, 0.0, 1.0), one element
DisplayClamp(v) == Clip(v, 0, SCALE)

\* What simulate() computes for the element (i, j) of an (H, W) image: the
\* locals t_cm[i, j], mu, I0, I[i, j] before the clamp, and the returned value.
PixelFrame(mA, kVp, H, W, i, j) ==
    LET t   == Thickness(i, j, H, W, FOV_X_CM, SPHERE_RADIUS_CM, SPHERE_CENTER_CM)
        mu  == Mu(kVp)
        I0  == Incident(mA)
        raw == Attenuate(I0, mu, t)
    IN  [t_cm |-> t, mu |-> mu, I0 |-> I0, raw |-> raw, out |-> DisplayClamp(raw)]

\* simulate(mA, kVp, size): the assertion of _sphere_thickness_map fails for a
\* non-positive H or W; otherwise t_cm, I and the returned array have shape
\* (H, W), and mu and I0 are scalars.
Simulate(mA, kVp, H, W) ==
    IF ~ShapeOk(H, W)
    THEN [raised |-> "AssertionError"]
    ELSE LET mu == Mu(kVp)
             I0 == Incident(mA)
             t  == [i \in 0 .. H - 1 |-> [j \in 0 .. W - 1 |->
                      Thickness(i, j, H, W, FOV_X_CM, SPHERE_RADIUS_CM,
                                SPHERE_CENTER_CM)]]
         IN  [raised |-> "none",
              t_cm   |-> t,
              mu     |-> mu,
              I0     |-> I0,
              I      |-> [i \in 0 .. H - 1 |-> [j \in 0 .. W - 1 |->
                            Attenuate(I0, mu, t[i][j])]],
              ret    |-> [i \in 0 .. H - 1 |-> [j \in 0 .. W - 1 |->
                            DisplayClamp(Attenuate(I0, mu, t[i][j]))]]]

\* ndarray.shape of a two-dimensional array with at least one row
ShapeOf(arr) == <<Cardinality(DOMAIN arr), Cardinality(DOMAIN arr[0])>>

-----------------------------------------------------------------------------
(* gui.py: constants *)

DEFAULT_MA == 200
DEFAULT_KVP == 70
IMG_H == 256
IMG_W == 256

\* tk.Scale(from_=10, to=500) and tk.Scale(from_=40, to=120)
MA_FROM == 10
MA_TO == 500
KVP_FROM == 40
KVP_TO == 120

\* The slider positions followed (both sliders have resolution 1).
SliderMA == {MA_FROM, DEFAULT_MA, MA_TO}
SliderKVp == {KVP_FROM, DEFAULT_KVP, KVP_TO}

\* The elements at which an image is held: a corner, the rim of the sphere's
\* shadow and the middle of the grid.
SamplePixels == {<<0, 0>>, <<IMG_H \div 2, IMG_W \div 4>>, <<IMG_H \div 2, IMG_W \div 2>>}

\* (arr * 255).astype(np.uint8), one element
ToUint8(v) == (Clip(v, 0, SCALE) * 255) \div SCALE

\* render(): simulate(mA, kVp, IMG_SIZE), clipped and converted to an 8-bit
\* grayscale image
RenderImage(mA, kVp) ==
    [mode |-> "L",
     px   |-> [p \in SamplePixels |->
                 ToUint8(PixelFrame(mA, kVp, IMG_H, IMG_W, p[1], p[2]).out)]]

\* simulate() is a pure function: the images of the slider positions followed,
\* each computed once.
Rendered == [m \in SliderMA, k \in SliderKVp |-> RenderImage(m, k)]

\* None, where an image is expected
NoImage == [mode |-> "None"]

\* The status bar text of render()
StatusText(mA, kVp) == <<"mA", mA, "kVp", kVp, "Size", IMG_W, IMG_H>>

-----------------------------------------------------------------------------
(* gui.py: XRayApp *)

\* render(): clears the debounce handle, reads both sliders, stores and shows
\* the image, updates the status bar.  It does not touch Tk's timer queue.
Render(mA, kVp) ==
    /\ after_id' = {}
    /\ last_pil' = Rendered[mA, kVp]
    /\ preview' = Rendered[mA, kVp]
    /\ status' = StatusText(mA, kVp)

\* _on_slider(): cancel the timer _after_id names, if any, and schedule render
\* 80 ms from now.
OnSlider ==
    /\ next_after <= MaxAfter
    /\ timers' = (IF after_id # {} THEN timers \ after_id ELSE timers)
                    \cup {next_after}
    /\ after_id' = {next_after}
    /\ next_after' = next_after + 1
    /\ op' = "slider"
    /\ UNCHANGED <<last_pil, preview, status, saved, warned>>

\* The user moves the current slider: the Scale sets var_mA and calls _on_slider.
SlideMA(v) ==
    /\ v # var_mA
    /\ var_mA' = v
    /\ UNCHANGED var_kVp
    /\ OnSlider

\* The user moves the voltage slider: the Scale sets var_kVp and calls _on_slider.
SlideKVp(v) ==
    /\ v # var_kVp
    /\ var_kVp' = v
    /\ UNCHANGED var_mA
    /\ OnSlider

\* A Reset that sets the sliders and leaves the render out.
ResetParamsNoRender ==
    /\ var_mA' = DEFAULT_MA
    /\ var_kVp' = DEFAULT_KVP
    /\ op' = "reset"
    /\ UNCHANGED <<after_id, last_pil, preview, status, timers, next_after, saved, warned>>

\* reset_params(): both sliders to their defaults, then render() at once.
ResetParams ==
    /\ var_mA' = DEFAULT_MA
    /\ var_kVp' = DEFAULT_KVP
    /\ Render(DEFAULT_MA, DEFAULT_KVP)
    /\ op' = "reset"
    /\ UNCHANGED <<timers, next_after, saved, warned>>

\* The smallest element of a non-empty set of numbers.
MinOf(S) == CHOOSE x \in S : \A y \in S : x <= y

\* Tk fires a scheduled render.  Every timer has the same 80 ms delay, so the
\* one scheduled first is due first.
TimerFire ==
    /\ timers # {}
    /\ timers' = timers \ {MinOf(timers)}
    /\ Render(var_mA, var_kVp)
    /\ op' = "timer"
    /\ UNCHANGED <<var_mA, var_kVp, next_after, saved, warned>>

\* A save that drops the image once it is written.
SavePngConsuming(path) ==
    /\ IF last_pil = NoImage
       THEN warned' = TRUE /\ UNCHANGED <<saved, last_pil>>
       ELSE /\ saved' = (IF path # "" THEN last_pil ELSE saved)
            /\ last_pil' = NoImage
            /\ UNCHANGED warned
    /\ op' = "save"
    /\ UNCHANGED <<var_mA, var_kVp, after_id, timers, next_after, preview, status>>

\* save_png(): warn when there is no image; otherwise ask for a path (the
\* empty string when the dialog is cancelled) and write the image to it.
SavePng(path) ==
    /\ IF ~(last_pil # NoImage)
       THEN warned' = TRUE /\ UNCHANGED saved
       ELSE /\ saved' = (IF path # "" THEN last_pil ELSE saved)
            /\ UNCHANGED warned
    /\ op' = "save"
    /\ UNCHANGED <<var_mA, var_kVp, after_id, timers, next_after, last_pil,
                   preview, status>>

\* XRayApp.__init__(): the sliders at their defaults, no timer, and the
\* initial render() done.
GuiInit ==
    /\ var_mA = DEFAULT_MA
    /\ var_kVp = DEFAULT_KVP
    /\ after_id = {}
    /\ timers = {}
    /\ next_after = 0
    /\ last_pil = Rendered[DEFAULT_MA, DEFAULT_KVP]
    /\ preview = Rendered[DEFAULT_MA, DEFAULT_KVP]
    /\ status = StatusText(DEFAULT_MA, DEFAULT_KVP)
    /\ saved = NoImage
    /\ warned = FALSE
    /\ op = "init"

\* The fields of __init__ before its first render(): no XRayApp is running
\* while simulate() is exercised alone.
GuiAbsent ==
    /\ var_mA = DEFAULT_MA
    /\ var_kVp = DEFAULT_KVP
    /\ after_id = {}
    /\ timers = {}
    /\ next_after = 0
    /\ last_pil = NoImage
    /\ preview = NoImage
    /\ status = <<>>
    /\ saved = NoImage
    /\ warned = FALSE
    /\ op = "none"

\* No call of simulate is followed.
NotCalled == [raised |-> "not called"]
SimIdle == call = [mA |-> 0, kVp |-> 0, H |-> 0, W |-> 0] /\ sim = NotCalled
ImgIdle == probe = [mA |-> 0, kVp |-> 0, i |-> 0, j |-> 0] /\ pixel = NotCalled

Init == GuiInit /\ SimIdle /\ ImgIdle

Next ==
    \/ \E v \in SliderMA : SlideMA(v) /\ UNCHANGED <<simVars, imgVars>>
    \/ \E v \in SliderKVp : SlideKVp(v) /\ UNCHANGED <<simVars, imgVars>>
    \/ ResetParams /\ UNCHANGED <<simVars, imgVars>>
    \/ TimerFire /\ UNCHANGED <<simVars, imgVars>>
    \/ \E path \in {"", "xray_sim.png"} : SavePng(path) /\ UNCHANGED <<simVars, imgVars>>

\* The application driven by the user and by Tk's timers.
Spec == Init /\ [][Next]_vars

\* The same, with Tk's event loop firing a timer that stays scheduled.
FairSpec ==
    Init /\ [][Next]_vars /\ WF_vars(TimerFire /\ UNCHANGED <<simVars, imgVars>>)

-----------------------------------------------------------------------------
(* simulate() called on whole arrays *)

\* Tube currents: below, at and above both ends of [10, 500], and far outside.
Currents == {-100, 0, MA_LO, MA_LO + 1, DEFAULT_MA, 255, MA_HI - 1, MA_HI,
             MA_HI + 1, 1000000}

\* Tube voltages: negative, zero, below, at and above the floor of 10, the
\* slider's range, and far outside.
Voltages == {-50, 0, 5, KVP_FLOOR, KVP_FLOOR + 1, KVP_FROM, DEFAULT_KVP, KVP_TO,
             1000000}

\* Heights and widths: negative, zero, 1 and up.
Dims == -1 .. MaxDim

InitSim ==
    /\ call \in [mA : Currents, kVp : Voltages, H : Dims, W : Dims]
    /\ sim = NotCalled
    /\ GuiAbsent
    /\ ImgIdle

\* arr = simulate(mA, kVp, (H, W))
SimCall ==
    /\ sim = NotCalled
    /\ sim' = Simulate(call.mA, call.kVp, call.H, call.W)
    /\ UNCHANGED <<call, guiVars, imgVars>>

SpecSim == InitSim /\ [][SimCall]_vars

-----------------------------------------------------------------------------
(* simulate() on an IMG_SIZE image, one element at a time *)

InitImg ==
    /\ probe \in [mA : {DEFAULT_MA}, kVp : {DEFAULT_KVP},
                  i : 0 .. IMG_H - 1, j : 0 .. IMG_W - 1]
    /\ pixel = NotCalled
    /\ GuiAbsent
    /\ SimIdle

\* simulate(mA, kVp, IMG_SIZE)[i, j]
ImgCall ==
    /\ pixel = NotCalled
    /\ pixel' = PixelFrame(probe.mA, probe.kVp, IMG_H, IMG_W, probe.i, probe.j)
    /\ UNCHANGED <<probe, guiVars, simVars>>

SpecImg == InitImg /\ [][ImgCall]_vars

-----------------------------------------------------------------------------
(* Properties of simulate(), under SpecSim *)

Returned == sim # NotCalled /\ sim.raised = "none"
Rows == 0 .. call.H - 1
Cols == 0 .. call.W - 1

\* C1: whatever the current and the voltage, every element of the array
\* simulate returns for a positive shape lies in [0.0, 1.0].
C1_RangeInvariant ==
    Returned => \A i \in Rows, j \in Cols :
                    0 <= sim.ret[i][j] /\ sim.ret[i][j] <= SCALE

\* A call far outside the nominal ranges in which the clamp acts: an element
\* above 1.0 before it, at 1.0 after it.
C1_Witness ==
    /\ Returned
    /\ call.mA > MA_HI /\ call.kVp < 0
    /\ \E i \in Rows, j \in Cols : sim.I[i][j] > SCALE /\ sim.ret[i][j] = SCALE

\* C2: simulate returns an array exactly when H > 0 and W > 0, of shape
\* (H, W); for any other shape it ends in an assertion failure, without an array.
C2_ShapeOrAssertion ==
    sim # NotCalled =>
        IF call.H > 0 /\ call.W > 0
        THEN sim.raised = "none" /\ ShapeOf(sim.ret) = <<call.H, call.W>>
        ELSE sim.raised = "AssertionError" /\ "ret" \notin DOMAIN sim

\* A degenerate one-row grid was returned.
C2_Witness ==
    Returned /\ call.H = 1 /\ call.W = MaxDim /\ ShapeOf(sim.ret) = <<1, MaxDim>>

\* C3: for every current the call does not fail, and I0 is clamped: I0_MIN at
\* and below 10 mA, I0_MAX at and above 500 mA, and in between the linear ramp
\* I0_MIN + (I0_MAX - I0_MIN) * (mA - 10) / 490 (to the two roundings of the
\* fixed-point ramp); so I0 is always within [I0_MIN, I0_MAX].
C3_IncidentClamped ==
    (sim # NotCalled /\ call.H > 0 /\ call.W > 0) =>
        /\ sim.raised = "none"
        /\ I0_MIN <= sim.I0 /\ sim.I0 <= I0_MAX
        /\ call.mA <= MA_LO => sim.I0 = I0_MIN
        /\ call.mA >= MA_HI => sim.I0 = I0_MAX
        /\ (MA_LO <= call.mA /\ call.mA <= MA_HI) =>
              LET exact == (MA_HI - MA_LO) * I0_MIN
                             + (I0_MAX - I0_MIN) * (call.mA - MA_LO)
              IN  /\ (MA_HI - MA_LO) * sim.I0 <= exact
                  /\ exact < (MA_HI - MA_LO) * (sim.I0 + 2)

\* A current far above 500 mA was simulated and I0 stayed at I0_MAX.
C3_Witness == Returned /\ call.mA > 2 * MA_HI /\ sim.I0 = I0_MAX

\* C4: for a voltage at or below 10.0 and a positive shape the call does not
\* fail and computes what it computes for 10.0: the same mu and the same
\* arrays.
C4_VoltageFloor ==
    (sim # NotCalled /\ call.kVp <= KVP_FLOOR /\ call.H > 0 /\ call.W > 0) =>
        /\ sim.raised = "none"
        /\ sim = Simulate(call.mA, KVP_FLOOR, call.H, call.W)

\* A zero voltage was simulated on a grid with an attenuated element.
C4_Witness ==
    /\ Returned /\ call.kVp = 0
    /\ \E i \in Rows, j \in Cols : sim.t_cm[i][j] > 0 /\ sim.ret[i][j] < sim.I0

\* C5: with voltage and shape fixed, for currents c1 <= c2 within [10, 500]
\* no element of simulate(c2, ...) is below the same element of
\* simulate(c1, ...), before the final clamp and after it.
C5_MonotoneInCurrent ==
    (Returned /\ MA_LO <= call.mA /\ call.mA <= MA_HI) =>
        \A c1 \in Currents :
            (MA_LO <= c1 /\ c1 <= call.mA) =>
                LET lower == Simulate(c1, call.kVp, call.H, call.W)
                IN  \A i \in Rows, j \in Cols :
                        /\ lower.ret[i][j] <= sim.ret[i][j]
                        /\ lower.I[i][j] <= sim.I[i][j]

\* The largest current of the range was simulated, and an element is strictly
\* brighter than at the smallest.
C5_Witness ==
    /\ Returned /\ call.mA = MA_HI
    /\ \E i \in Rows, j \in Cols :
          Simulate(MA_LO, call.kVp, call.H, call.W).ret[i][j] < sim.ret[i][j]

\* Whether the centre of pixel (i, j) of an (H, W) grid lies farther than R
\* from the sphere centre (0, 0): x = (j - (W-1)/2) * FOV_X / W and
\* y = (i - (H-1)/2) * FOV_X / W, so r > R iff
\* FOV_X^2 * ((2j - W + 1)^2 + (2i - H + 1)^2) > (2 * R * W)^2.
BeyondRadius(i, j, H, W) ==
    FOV_X_CM * FOV_X_CM * ((2 * j - W + 1) * (2 * j - W + 1)
                             + (2 * i - H + 1) * (2 * i - H + 1))
        > (2 * SPHERE_RADIUS_CM * W) * (2 * SPHERE_RADIUS_CM * W)

\* C6: for every positive shape the thickness map is non-negative, is exactly
\* 0 at every pixel farther than R from the sphere centre, never exceeds 2*R,
\* and is the one every current and voltage gives.
C6_ThicknessMap ==
    Returned =>
        /\ \A i \in Rows, j \in Cols :
              /\ 0 <= sim.t_cm[i][j]
              /\ sim.t_cm[i][j] <= 2 * SPHERE_RADIUS_CM * SCALE
              /\ BeyondRadius(i, j, call.H, call.W) => sim.t_cm[i][j] = 0
        /\ sim.t_cm = Simulate(DEFAULT_MA, DEFAULT_KVP, call.H, call.W).t_cm

\* A map with a pixel beyond the radius and a pixel within it.
C6_Witness ==
    /\ Returned
    /\ \E i \in Rows, j \in Cols :
          BeyondRadius(i, j, call.H, call.W) /\ sim.t_cm[i][j] = 0
    /\ \E i \in Rows, j \in Cols :
          sim.t_cm[i][j] > 0 /\ sim.t_cm[i][j] < 2 * SPHERE_RADIUS_CM * SCALE

-----------------------------------------------------------------------------
(* Properties of simulate() on the IMG_SIZE image, under SpecImg *)

\* The four pixels around the middle of the grid.
Central(i, j) ==
    /\ i \in {IMG_H \div 2 - 1, IMG_H \div 2}
    /\ j \in {IMG_W \div 2 - 1, IMG_W \div 2}

\* C7 as stated: on the (256, 256) image the pixel at the grid centre has the
\* thickness 2*R = 12.0 cm.
C7_CentreIsTwoR ==
    (pixel # NotCalled /\ probe.i = IMG_H \div 2 /\ probe.j = IMG_W \div 2) =>
        pixel.t_cm = 2 * SPHERE_RADIUS_CM * SCALE

\* C7, amended: on the (256, 256) image no pixel reaches the thickness 2*R;
\* the four pixels around the grid centre share the maximal thickness, which
\* is less than one fixed-point unit below 2*R, and every pixel's intensity
\* before the clamp is I0 * exp(-mu * t) for its own thickness t.
C7_CentreMaximalBelowTwoR ==
    pixel # NotCalled =>
        LET mid == PixelFrame(probe.mA, probe.kVp, IMG_H, IMG_W,
                              IMG_H \div 2, IMG_W \div 2)
        IN  /\ pixel.t_cm < 2 * SPHERE_RADIUS_CM * SCALE
            /\ pixel.t_cm <= mid.t_cm
            /\ pixel.raw = FMul(pixel.I0, ExpNeg(FMul(pixel.mu, pixel.t_cm)))
            /\ Central(probe.i, probe.j) =>
                  /\ pixel.t_cm = mid.t_cm
                  /\ pixel.t_cm >= 2 * SPHERE_RADIUS_CM * SCALE - 1

\* The element next to the grid centre was computed at the scenario's
\* current and voltage.
C7_Witness ==
    /\ pixel # NotCalled
    /\ probe.mA = DEFAULT_MA /\ probe.kVp = DEFAULT_KVP
    /\ probe.i = IMG_H \div 2 /\ probe.j = IMG_W \div 2
    /\ pixel.t_cm > 0 /\ pixel.raw > 0

-----------------------------------------------------------------------------
(* Properties of XRayApp, under Spec and FairSpec *)

\* C8: a slider change leaves exactly the render it scheduled; at most one
\* scheduled render is pending at any time, and _after_id names it whenever
\* one is pending.
C8_OnePendingRender ==
    /\ Cardinality(timers) <= 1
    /\ timers # {} => after_id = timers
    /\ op = "slider" => timers = after_id

\* Whether what is shown was rendered from the sliders' values.
ShownIsCurrent ==
    /\ last_pil = RenderImage(var_mA, var_kVp)
    /\ preview = RenderImage(var_mA, var_kVp)
    /\ status = StatusText(var_mA, var_kVp)

C10_AlwaysSavable ==
    /\ [](last_pil # NoImage /\ ~warned)
    /\ [][op' = "save" => UNCHANGED <<last_pil, var_mA, var_kVp, after_id>>]_vars

\* Save PNG wrote the image of moved sliders while a render was scheduled.
C10_Witness ==
    /\ op = "save" /\ saved = last_pil
    /\ after_id # {} /\ var_mA # DEFAULT_MA

====
